---------------------------- MODULE Spec2Model ----------------------------
(***************************************************************************)
(* GrammarUtil (gramutil/cfg.py): a context-free grammar is read from      *)
(* text, converted to a pushdown automaton (toPDA), converted back by the  *)
(* triple construction (toCFG) and simplified in place (simplify).         *)
(*                                                                         *)
(* A Python str is a sequence of code points (naturals).  A dict, which    *)
(* keeps its keys in insertion order, is a sequence of [k, v] entries.  A  *)
(* list is a sequence.  A Python set is a TLA+ set; the order in which a   *)
(* set of str is iterated depends on the per-process string hash, and is   *)
(* a function of the variable hashSeed (see SetOrder).                     *)
(***************************************************************************)
EXTENDS Integers, Sequences, FiniteSets, TLC

VARIABLES
    pc,         \* where the driver script (cfg.py __main__, convert.py) is
    hashSeed,   \* the process's string-hash seed: fixes set iteration order
    lineNo,     \* number of lines of the text consumed by __init__ so far
    lastLine,   \* index in TextLines of the line consumed last
    name,       \* __init__'s local `name`
    grammar,    \* the ContextFreeGrammar built from the text
    err,        \* the exception that ended construction, or NoError
    pda,        \* the PushdownAutomata
    pdaBuilt,   \* the automaton as __init__ left it
    cfg,        \* the ContextFreeGrammar made by toCFG, then simplified
    loopVars,   \* simplify's locals: remove, replace, and history counters
    calls,      \* number of simplify() calls begun
    firstResult \* cfg.productions as the first simplify() call left it

vars == <<pc, hashSeed, lineNo, lastLine, name, grammar, err, pda, pdaBuilt,
          cfg, loopVars, calls, firstResult>>

-----------------------------------------------------------------------------
(* Bounds of the model *)

\* Lines of text a grammar is built from.
MaxLines == 6
\* simplify() calls on one grammar object.
MaxCalls == 2
\* Length of the terminal strings compared by the language claims.
MaxLen == 2

-----------------------------------------------------------------------------
(* Python str as sequences of code points *)

Chr == [sp |-> 32, tab |-> 9, dollar |-> 36, hash |-> 35, dash |-> 45,
        gt |-> 62, bar |-> 124, us |-> 95, eps |-> 949, delta |-> 916,
        a |-> 97, z |-> 122, A |-> 65, Z |-> 90, d0 |-> 48, d9 |-> 57]

EPS == <<949>>
UNDERFLOW == <<916>>
START == <<83, 116, 97, 114, 116>>
END == <<69, 110, 100>>
HUB == <<66>>
PUSH == "PUSH"
POP == "POP"
StateA == <<65>>
StartSymbol == <<83>>

IsUpper(c) == c >= Chr.A /\ c <= Chr.Z
IsLower(c) == c >= Chr.a /\ c <= Chr.z
IsDigit(c) == c >= Chr.d0 /\ c <= Chr.d9
IsSpace(c) == c = Chr.sp \/ c = Chr.tab

\* re.compile(r'[A-Z][_A-Za-z0-9]*').fullmatch
NONTERMINAL(s) ==
    /\ Len(s) >= 1
    /\ IsUpper(s[1])
    /\ \A i \in 2..Len(s) :
          s[i] = Chr.us \/ IsUpper(s[i]) \/ IsLower(s[i]) \/ IsDigit(s[i])

\* re.compile(r'[Δε_a-z0-9]*').fullmatch
TERMINAL(s) ==
    \A i \in 1..Len(s) :
        \/ s[i] = Chr.delta \/ s[i] = Chr.eps \/ s[i] = Chr.us
        \/ IsLower(s[i]) \/ IsDigit(s[i])

\* str < str: by code point, a proper prefix first
RECURSIVE StrLess(_, _)
StrLess(s, t) ==
    IF t = <<>> THEN FALSE
    ELSE IF s = <<>> THEN TRUE
    ELSE IF s[1] # t[1] THEN s[1] < t[1]
    ELSE StrLess(Tail(s), Tail(t))

\* ' '.join(terms)
RECURSIVE Join(_)
Join(terms) ==
    IF terms = <<>> THEN <<>>
    ELSE IF Len(terms) = 1 THEN terms[1]
    ELSE terms[1] \o <<Chr.sp>> \o Join(Tail(terms))

\* str.strip()
RECURSIVE LStrip(_)
LStrip(s) == IF s # <<>> /\ IsSpace(s[1]) THEN LStrip(Tail(s)) ELSE s

RECURSIVE RStrip(_)
RStrip(s) ==
    IF s # <<>> /\ IsSpace(s[Len(s)]) THEN RStrip(SubSeq(s, 1, Len(s) - 1))
    ELSE s

Strip(s) == RStrip(LStrip(s))

\* str.replace('$', 'ε')
ReplaceDollar(s) ==
    [i \in 1..Len(s) |-> IF s[i] = Chr.dollar THEN Chr.eps ELSE s[i]]

\* positions at which '->' starts
ArrowAt(s) ==
    {i \in 1..Len(s) : i < Len(s) /\ s[i] = Chr.dash /\ s[i + 1] = Chr.gt}

Min(S) == CHOOSE x \in S : \A y \in S : x <= y

\* str.split('->'): the pieces between non-overlapping arrows, left to right
RECURSIVE SplitArrow(_)
SplitArrow(s) ==
    IF ArrowAt(s) = {} THEN <<s>>
    ELSE LET i == Min(ArrowAt(s))
         IN  <<SubSeq(s, 1, i - 1)>> \o SplitArrow(SubSeq(s, i + 2, Len(s)))

\* str.split('|')
RECURSIVE SplitBar(_)
SplitBar(s) ==
    LET at == {i \in 1..Len(s) : s[i] = Chr.bar}
    IN  IF at = {} THEN <<s>>
        ELSE <<SubSeq(s, 1, Min(at) - 1)>>
                 \o SplitBar(SubSeq(s, Min(at) + 1, Len(s)))

\* str.split(): the maximal runs of non-whitespace
RECURSIVE SplitWords(_)
SplitWords(s) ==
    LET t == LStrip(s)
        ws == {i \in 1..Len(t) : IsSpace(t[i])}
    IN  IF t = <<>> THEN <<>>
        ELSE IF ws = {} THEN <<t>>
        ELSE <<SubSeq(t, 1, Min(ws) - 1)>>
                 \o SplitWords(SubSeq(t, Min(ws), Len(t)))

-----------------------------------------------------------------------------
\* TLC evaluates an operator's arguments when they are first used: a loop
\* that hands its accumulator on unevaluated nests as deep as it is long.
\* Evaluated(v) is TRUE, and has v evaluated.
Evaluated(v) == v = v

-----------------------------------------------------------------------------
(* dict and defaultdict, in insertion order *)

Keys(d) == [i \in 1..Len(d) |-> d[i].k]
KeySet(d) == {d[i].k : i \in 1..Len(d)}
HasKey(d, k) == \E i \in 1..Len(d) : d[i].k = k
Get(d, k) == d[CHOOSE i \in 1..Len(d) : d[i].k = k].v
\* d[k] = v
Put(d, k, v) ==
    IF HasKey(d, k)
    THEN [i \in 1..Len(d) |-> IF d[i].k = k THEN [k |-> k, v |-> v] ELSE d[i]]
    ELSE Append(d, [k |-> k, v |-> v])
\* del d[k]
Del(d, k) == SelectSeq(d, LAMBDA e : e.k # k)
\* defaultdict.__missing__: reading d[k] of a missing k inserts the default
Touch(d, k, default) ==
    IF HasKey(d, k) THEN d ELSE Append(d, [k |-> k, v |-> default])

\* d[k].append(x), k being present
AppendTo(d, k, x) == Put(d, k, Append(Get(d, k), x))
\* d[k2] = d[k]; del d[k], k being present
MoveKey(d, k, k2) == Del(Put(d, k2, Get(d, k)), k)

\* The order in which a set of str is iterated.  CPython orders a set by
\* the hash of its elements, and str hashes are salted per process: within
\* one process the order of a given set is fixed, across processes it is
\* any order.  Two orders are modelled: ascending and descending.
RECURSIVE SortedSeq(_)
SortedSeq(S) ==
    IF S = {} THEN <<>>
    ELSE LET m == CHOOSE x \in S : \A y \in S \ {x} : StrLess(x, y)
         IN  <<m>> \o SortedSeq(S \ {m})

Reverse(s) == [i \in 1..Len(s) |-> s[Len(s) + 1 - i]]

SetOrder(S, seed) ==
    IF seed = "asc" THEN SortedSeq(S) ELSE Reverse(SortedSeq(S))

HashSeeds == {"asc", "desc"}


-----------------------------------------------------------------------------
(* StateCounter *)

\* str.lower()
Lower(s) ==
    [i \in 1..Len(s) |-> IF IsUpper(s[i]) THEN s[i] + (Chr.a - Chr.A) ELSE s[i]]

\* str.capitalize()
Capitalize(s) ==
    [i \in 1..Len(s) |->
        IF i = 1 /\ IsLower(s[i]) THEN s[i] - (Chr.a - Chr.A)
        ELSE IF i > 1 /\ IsUpper(s[i]) THEN s[i] + (Chr.a - Chr.A)
        ELSE s[i]]

\* StateCounter.stateIndex: base 26 value of s, 'a' being digit 0
RECURSIVE stateIndex(_)
stateIndex(s) ==
    IF s = <<>> THEN 0
    ELSE 26 * stateIndex(SubSeq(s, 1, Len(s) - 1)) + (s[Len(s)] - Chr.a)

\* the digits of n, most significant first (res[::-1] of the loop)
RECURSIVE Digits(_)
Digits(n) ==
    IF n = 0 THEN <<>> ELSE Digits(n \div 26) \o <<Chr.a + (n % 26)>>

\* StateCounter.stateName
stateName(n) == IF n = 0 THEN StateA ELSE Capitalize(Digits(n))

\* StateCounter.__init__
NewCounter(n) ==
    [idx |-> n - 1,
     invalid |-> {stateIndex(Lower(START)), stateIndex(Lower(END))}]

\* StateCounter.invalidate
invalidate(c, s) ==
    [c EXCEPT !.invalid = c.invalid \cup {stateIndex(Lower(s))}]

RECURSIVE SkipInvalid(_, _)
SkipInvalid(i, invalid) ==
    IF i \in invalid THEN SkipInvalid(i + 1, invalid) ELSE i

\* StateCounter.get: the counter after the call and the name returned
CounterGet(c) ==
    LET i == SkipInvalid(c.idx + 1, c.invalid)
    IN  [counter |-> [c EXCEPT !.idx = i], name |-> stateName(i)]

-----------------------------------------------------------------------------
(* Production: its list of terms *)

\* Production.verify
verify(terms) == IF Len(terms) = 0 THEN <<EPS>> ELSE terms

\* Production.__init__: Δ and ε are dropped
Production(terms) ==
    verify(SelectSeq(terms, LAMBDA t : t # UNDERFLOW /\ t # EPS))

\* Production.empty
empty(p) == p = <<EPS>>

\* Production.terminal
terminal(p) == Len(p) = 1 /\ TERMINAL(p[1])

\* Production.__repr__
Repr(p) == Join(p)

\* Production.rename; mapping is a dict
rename(p, mapping) ==
    [i \in 1..Len(p) |->
        IF HasKey(mapping, p[i]) THEN Get(mapping, p[i]) ELSE p[i]]

-----------------------------------------------------------------------------
(* ContextFreeGrammar: construction *)

NoError == [kind |-> "none", line |-> 0, at |-> 0]

\* error(message, line): the exception's message kind and "(line N)";
\* `at` records the 1-based index of the line of text being read
Error(kind, line, at) == [kind |-> kind, line |-> line, at |-> at]

EmptyGrammar == [productions |-> <<>>, terminals |-> {}]

\* ContextFreeGrammar.production's loop over the terms: the terminals
\* added before the first bad term, and whether a bad term was met
RECURSIVE ScanTerms(_, _)
ScanTerms(prod, terminals) ==
    IF prod = <<>> THEN [terminals |-> terminals, bad |-> FALSE]
    ELSE IF TERMINAL(prod[1])
         THEN ScanTerms(Tail(prod), terminals \cup {prod[1]})
    ELSE IF ~NONTERMINAL(prod[1])
         THEN [terminals |-> terminals, bad |-> TRUE]
    ELSE ScanTerms(Tail(prod), terminals)

\* The line number production() passes to error()
ErrorLine(line) == line + 1

\* The rest of production() once the loop over the terms has run: sc is
\* what the loop left (ScanTerms)
AddProduction(g, nm, prod, line, at, sc) ==
    IF sc.bad
    THEN [g |-> [g EXCEPT !.terminals = sc.terminals],
          err |-> Error("Invalid production item", ErrorLine(line), at)]
    ELSE [g |-> [g EXCEPT !.terminals = sc.terminals,
                          !.productions =
                              AppendTo(Touch(@, nm, <<>>), nm, Production(prod))],
          err |-> NoError]

\* ContextFreeGrammar.production(name, prod, line): the grammar after the
\* call, and the exception if one was raised.  `at` is not a parameter of
\* the code: it carries the index of the line being read into the error.
production(g, nm, prod, line, at) ==
    IF ~NONTERMINAL(nm)
    THEN [g |-> g, err |-> Error("Invalid production state name", ErrorLine(line), at)]
    ELSE AddProduction(g, nm, prod, line, at, ScanTerms(prod, g.terminals))

\* for prod in prods: self.production(name.strip(), prod.split(), idx + 1)
\* r is the grammar and the exception so far; an exception ends the loop
RECURSIVE AddAlternatives(_, _, _, _)
AddAlternatives(r, nm, prods, idx) ==
    IF r.err # NoError \/ prods = <<>> THEN r
    ELSE AddAlternatives(production(r.g, Strip(nm), SplitWords(prods[1]),
                                    idx + 1, idx + 1),
                         nm, Tail(prods), idx)

StartsWith(s, p) == Len(s) >= Len(p) /\ SubSeq(s, 1, Len(p)) = p

\* What a pass of the loop of __init__ leaves: r with the local `name`
WithName(r, nm) == [g |-> r.g, name |-> nm, err |-> r.err]

\* name, rest = line.split('->') and the loop over rest.split('|')
ReadParts(g, nm, parts, idx) ==
    IF Len(parts) # 2
    THEN [g |-> g, name |-> nm, err |-> Error("ValueError", 0, idx + 1)]
    ELSE WithName(AddAlternatives([g |-> g, err |-> NoError], parts[1],
                                  SplitBar(parts[2]), idx),
                  parts[1])

\* The body of the loop of __init__ for a stripped line
ReadStripped(g, nm, line, idx) ==
    IF line = <<>> \/ StartsWith(line, <<Chr.hash>>)
    THEN [g |-> g, name |-> nm, err |-> NoError]
    ELSE IF ArrowAt(line) = {}
    THEN [g |-> g, name |-> nm,
          err |-> Error("Not a valid production", idx + 1, idx + 1)]
    ELSE ReadParts(g, nm,
                   SplitArrow(IF StartsWith(line, <<Chr.dash, Chr.gt>>)
                              THEN nm \o line ELSE line),
                   idx)

\* One pass of the loop of ContextFreeGrammar.__init__ over line number idx
\* (0-based) of the text: the grammar, `name` and the exception after it.
ReadLine(g, nm, text, idx) ==
    ReadStripped(g, nm, ReplaceDollar(Strip(text)), idx)

\* The lines a text is made of: a text is a subsequence of these.
TextLines == <<
    <<>>,                                               \* (blank)
    <<35, 32, 99>>,                                     \* # c
    <<83, 32, 45, 62, 32, 48, 32, 83, 32, 48>>,         \* S -> 0 S 0
    <<32, 32, 45, 62, 32, 84>>,                         \*   -> T
    <<84, 32, 45, 62, 32, 49, 32, 84, 32, 49>>,         \* T -> 1 T 1
    <<32, 32, 45, 62, 32, 48>>,                         \*   -> 0
    <<32, 32, 45, 62, 32, 36>>,                         \*   -> $
    <<83, 32, 45, 62, 32, 36>>,                         \* S -> $
    <<83, 32, 45, 62, 32, 83, 32, 48, 32, 84, 32, 124, 32, 83>>,
                                                        \* S -> S 0 T | S
    <<115, 32, 45, 62, 32, 97>>,                        \* s -> a
    <<83, 32, 45, 62, 32, 97, 45, 98>>,                 \* S -> a-b
    <<83, 32, 48>>                                      \* S 0
>>

-----------------------------------------------------------------------------
(* PushdownAutomata: construction *)

\* Transition.__init__
Transition(next, read, action, value) ==
    [next |-> next, read |-> read, action |-> action, value |-> value]

\* d[k][k2].append(x) for a defaultdict of defaultdict(list)
AppendInner(d, k, k2, x) ==
    Put(d, k, AppendTo(Touch(Get(d, k), k2, <<>>), k2, x))

\* PushdownAutomata.transition.  stackSymbols is a defaultdict of
\* defaultdict(list), states a defaultdict(list), stateNames a set.
transition(p, cur, next, read, action, value) ==
    [p EXCEPT
        !.stackSymbols = AppendInner(Touch(@, value, <<>>), value, action,
                                     <<cur, next, read>>),
        !.states = AppendTo(Touch(@, cur, <<>>), cur,
                            Transition(next, read, action, value)),
        !.stateNames = @ \cup {cur, next}]

\* The automaton with its counter advanced to r.counter, and the name got
Named(p, r) == [p |-> [p EXCEPT !.names = r.counter], name |-> r.name]

\* self.names.get() on the automaton's counter
NextName(p) == Named(p, CounterGet(p.names))

\* for c in grammar.terminals: self.transition(HUB, HUB, c, POP, c)
RECURSIVE TerminalLoops(_, _)
TerminalLoops(p, cs) ==
    IF Evaluated(p) /\ cs # <<>>
    THEN TerminalLoops(transition(p, HUB, HUB, cs[1], POP, cs[1]), Tail(cs))
    ELSE p

\* cur = next; next = n.name; self.transition(cur, next, EPS, PUSH, term).
\* c is the automaton, `next` and the path of states passed so far.
PushTerm(c, n, term) ==
    [p |-> transition(n.p, c.next, n.name, EPS, PUSH, term),
     next |-> n.name,
     path |-> Append(c.path, n.name)]

\* The loop `for i, term in enumerate(rest)` from position i (1-based) on
RECURSIVE PushRest(_, _, _)
PushRest(c, rest, i) ==
    IF i > Len(rest) \/ ~Evaluated(c) THEN c
    ELSE IF rest[i] = EPS THEN PushRest(c, rest, i + 1)
    ELSE PushRest(PushTerm(c,
                           IF i = Len(rest) THEN [p |-> c.p, name |-> HUB]
                           ELSE NextName(c.p),
                           rest[i]),
                  rest, i + 1)

\* next = n.name; the transition that pops nm, reading the production's
\* first term when that is a terminal
PopHead(n, nm, prod) ==
    [p |-> transition(n.p, HUB, n.name,
                      IF TERMINAL(prod[1]) THEN prod[1] ELSE EPS, POP, nm),
     next |-> n.name,
     path |-> <<HUB, n.name>>]

\* rest = prod.terms[int(terminal):][::-1]
Rest(prod) ==
    Reverse(SubSeq(prod, IF TERMINAL(prod[1]) THEN 2 ELSE 1, Len(prod)))

\* The path of states the transitions of a production pass is appended to
\* p.chains, which the code does not keep.
RecordChain(c, nm, prod) ==
    [c.p EXCEPT !.chains = Append(@, [name |-> nm, prod |-> prod,
                                      path |-> c.path])]

\* The body of `for prod in prodlist` of PushdownAutomata.__init__: the
\* transitions of one production of nonterminal nm.
ProductionChain(p, nm, prod) ==
    RecordChain(PushRest(PopHead(IF Len(prod) = 1 THEN [p |-> p, name |-> HUB]
                                 ELSE NextName(p),
                                 nm, prod),
                         Rest(prod), 1),
                nm, prod)

RECURSIVE ProdListChains(_, _, _)
ProdListChains(p, nm, prodlist) ==
    IF Evaluated(p) /\ prodlist # <<>>
    THEN ProdListChains(ProductionChain(p, nm, prodlist[1]), nm, Tail(prodlist))
    ELSE p

\* for name, prodlist in grammar.productions.items()
RECURSIVE GrammarChains(_, _)
GrammarChains(p, prods) ==
    IF Evaluated(p) /\ prods # <<>>
    THEN GrammarChains(ProdListChains(p, prods[1].k, prods[1].v), Tail(prods))
    ELSE p

EmptyPDA ==
    [stackSymbols |-> <<>>, states |-> <<>>, stateNames |-> {},
     names |-> NewCounter(2), chains |-> <<>>]

\* The first two transitions of __init__
Entry == transition(transition(EmptyPDA, START, StateA, EPS, PUSH, UNDERFLOW),
                    StateA, HUB, EPS, PUSH, StartSymbol)

\* PushdownAutomata.__init__(grammar); seed orders grammar.terminals
NewPDA(g, seed) ==
    GrammarChains(transition(TerminalLoops(Entry, SetOrder(g.terminals, seed)),
                             HUB, END, UNDERFLOW, POP, UNDERFLOW),
                  g.productions)

-----------------------------------------------------------------------------
(* PushdownAutomata: reachability and toCFG *)

\* `for trans in self.states[cur]` of pathHelper from transition i on:
\* whether y was met, and vis and the queue afterwards
RECURSIVE ScanTransitions(_, _, _, _, _)
ScanTransitions(trs, i, y, vis, queue) ==
    IF i > Len(trs) THEN [found |-> FALSE, vis |-> vis, queue |-> queue]
    ELSE IF trs[i].next \in vis THEN ScanTransitions(trs, i + 1, y, vis, queue)
    ELSE IF trs[i].next = y THEN [found |-> TRUE, vis |-> vis, queue |-> queue]
    ELSE ScanTransitions(trs, i + 1, y, vis \cup {trs[i].next},
                         Append(queue, trs[i].next))

\* The while loop of pathHelper.  self.states is a defaultdict: reading
\* self.states[cur] inserts cur when it is missing.  s is what the scan of
\* the state taken last left: found, vis and the queue.
RECURSIVE Bfs(_, _, _)
Bfs(states, s, y) ==
    IF s.found \/ s.queue = <<>> THEN [found |-> s.found, states |-> states]
    ELSE Bfs(Touch(states, Head(s.queue), <<>>),
             ScanTransitions(Get(Touch(states, Head(s.queue), <<>>),
                                 Head(s.queue)),
                             1, y, s.vis, Tail(s.queue)),
             y)

\* PushdownAutomata.pathHelper(x, y): the answer, and self.states after it
pathHelper(states, x, y) ==
    IF x = y THEN [found |-> TRUE, states |-> states]
    ELSE Bfs(states, [found |-> FALSE, vis |-> {}, queue |-> <<x>>], y)

\* `a and self.pathHelper(y, z)`: the right side is not evaluated when the
\* left is false
AndPath(a, y, z) == IF a.found THEN pathHelper(a.states, y, z) ELSE a

\* PushdownAutomata.pathExists(x, y, z)
pathExists(states, x, y, z) == AndPath(pathHelper(states, x, y), y, z)

\* cfg.production(...) inside toCFG (line defaults to 0)
Emit(g, nm, prod) == production(g, nm, prod, 0, 0).g

\* toCFG's locals cfg and main with the automaton's stackSymbols and states
\* make up acc.  The body of `for pop in value[POP]`:
EmitPair(acc, push, pop) ==
    [acc EXCEPT
        !.cfg = Emit(@, push[1] \o pop[2],
                     <<push[3], push[2] \o pop[1], pop[3]>>),
        !.main = @ \cup {push[1] \o pop[2], push[2] \o pop[1]}]

\* `for pop in value[POP]` for one push
RECURSIVE PopLoop(_, _, _)
PopLoop(acc, push, pops) ==
    IF Evaluated(acc) /\ pops # <<>>
    THEN PopLoop(EmitPair(acc, push, pops[1]), push, Tail(pops))
    ELSE acc

\* value[action] is read, value being the inner defaultdict of entry i of
\* stackSymbols: a missing action is inserted
ReadInner(acc, i, action) ==
    [acc EXCEPT !.stackSymbols[i].v = Touch(@, action, <<>>)]

\* for pop in value[POP], value[POP] having been read
PopsOf(acc, i, push) == PopLoop(acc, push, Get(acc.stackSymbols[i].v, POP))

\* `for push in value[PUSH]`: value[POP] is read once per push
RECURSIVE PushLoop(_, _, _)
PushLoop(acc, i, pushes) ==
    IF Evaluated(acc) /\ pushes # <<>>
    THEN PushLoop(PopsOf(ReadInner(acc, i, POP), i, pushes[1]), i, Tail(pushes))
    ELSE acc

\* for push in value[PUSH], value[PUSH] having been read
PushesOf(acc, i) == PushLoop(acc, i, Get(acc.stackSymbols[i].v, PUSH))

\* `for sym, value in self.stackSymbols.items()` from entry i on
RECURSIVE SymbolLoop(_, _)
SymbolLoop(acc, i) ==
    IF i <= Len(acc.stackSymbols)
    THEN SymbolLoop(PushesOf(ReadInner(acc, i, PUSH), i), i + 1)
    ELSE acc

\* The `if` of the triple loop, pe being what pathExists(x, y, z) gave
EmitTriple(acc, pe, x, y, z) ==
    [acc EXCEPT
        !.states = pe.states,
        !.cfg = IF pe.found /\ {x \o z, x \o y, y \o z} \subseteq acc.main
                THEN IF x = z THEN Emit(@, x \o z, <<>>)
                     ELSE IF x # y /\ y # z
                          THEN Emit(@, x \o z, <<x \o y, y \o z>>)
                     ELSE @
                ELSE @]

\* The body of the triple loop
TripleBody(acc, x, y, z) ==
    EmitTriple(acc, pathExists(acc.states, x, y, z), x, y, z)

RECURSIVE ZLoop(_, _, _, _, _)
ZLoop(acc, x, y, order, k) ==
    IF Evaluated(acc) /\ k <= Len(order)
    THEN ZLoop(TripleBody(acc, x, y, order[k]), x, y, order, k + 1)
    ELSE acc

RECURSIVE YLoop(_, _, _, _)
YLoop(acc, x, order, j) ==
    IF Evaluated(acc) /\ j <= Len(order)
    THEN YLoop(ZLoop(acc, x, order[j], order, 1), x, order, j + 1)
    ELSE acc

RECURSIVE XLoop(_, _, _)
XLoop(acc, order, i) ==
    IF Evaluated(acc) /\ i <= Len(order)
    THEN XLoop(YLoop(acc, order[i], order, 1), order, i + 1)
    ELSE acc

\* What toCFG returns, and the automaton it leaves
Returned(p, acc) ==
    [cfg |-> acc.cfg,
     pda |-> [p EXCEPT !.stackSymbols = acc.stackSymbols,
                       !.states = acc.states]]

\* PushdownAutomata.toCFG: the grammar returned and the automaton after
\* the call; seed orders self.stateNames
toCFG(p, seed) ==
    Returned(p, XLoop(SymbolLoop([cfg |-> EmptyGrammar, main |-> {},
                                  stackSymbols |-> p.stackSymbols,
                                  states |-> p.states], 1),
                      SetOrder(p.stateNames, seed), 1))

-----------------------------------------------------------------------------
(* ContextFreeGrammar.simplify *)

StartEnd == START \o END
MergedKey == StateA \o HUB

\* The first two statements of simplify: productions['AB'] is read (and
\* inserted when missing), stored under 'StartEnd', and deleted.
mergeStart(prods) == MoveKey(Touch(prods, MergedKey, <<>>), MergedKey, StartEnd)

\* The loop of removeDuplicates over one production list
RECURSIVE Dedupe(_, _, _, _)
Dedupe(prodlist, nm, found, res) ==
    IF prodlist = <<>> THEN res
    ELSE LET sprod == Repr(prodlist[1])
         IN  IF sprod \notin found /\ sprod # nm
             THEN Dedupe(Tail(prodlist), nm, found \cup {sprod},
                         Append(res, prodlist[1]))
             ELSE Dedupe(Tail(prodlist), nm, found, res)

\* Production.__lt__
ProdLess(p, q) == StrLess(Repr(p), Repr(q))

\* sorted(res): stable insertion by __lt__
SortedInsert(sorted, p) ==
    LET after == {i \in 1..Len(sorted) : ProdLess(p, sorted[i])}
        at == IF after = {} THEN Len(sorted) + 1 ELSE Min(after)
    IN  SubSeq(sorted, 1, at - 1) \o <<p>> \o SubSeq(sorted, at, Len(sorted))

RECURSIVE Sorted(_)
Sorted(res) ==
    IF res = <<>> THEN <<>>
    ELSE SortedInsert(Sorted(SubSeq(res, 1, Len(res) - 1)), res[Len(res)])

\* removeDuplicates without its `found` set: every production but the
\* self-referential one is kept
removeDuplicatesNoFound(prods) ==
    [i \in 1..Len(prods) |->
        [k |-> prods[i].k,
         v |-> Sorted(SelectSeq(prods[i].v, LAMBDA q : Repr(q) # prods[i].k))]]

\* ContextFreeGrammar.removeDuplicates
removeDuplicates(prods) ==
    [i \in 1..Len(prods) |->
        [k |-> prods[i].k,
         v |-> Sorted(Dedupe(prods[i].v, prods[i].k, {}, <<>>))]]

\* The names the first loop of an iteration adds to `remove`
RemoveSet(prods) ==
    {prods[i].k : i \in {j \in 1..Len(prods) :
                            Len(prods[j].v) = 1 /\ empty(prods[j].v[1])}}

\* The names the first loop of an iteration adds to `replace`
ReplaceSet(prods) ==
    {prods[i].k : i \in {j \in 1..Len(prods) :
                            /\ Len(prods[j].v) = 1
                            /\ ~empty(prods[j].v[1])
                            /\ terminal(prods[j].v[1])}}

\* The while loop over prod.terms, from index idx (1-based) on
RECURSIVE WalkTerms(_, _, _, _, _)
WalkTerms(terms, idx, prods, remove, replace) ==
    IF idx > Len(terms) THEN terms
    ELSE IF terms[idx] \in remove
         THEN WalkTerms(SubSeq(terms, 1, idx - 1)
                            \o SubSeq(terms, idx + 1, Len(terms)),
                        idx, prods, remove, replace)
    ELSE IF terms[idx] \in replace
         THEN WalkTerms([terms EXCEPT ![idx] = Get(prods, terms[idx])[1][1]],
                        idx + 1, prods, remove, replace)
    ELSE WalkTerms(terms, idx + 1, prods, remove, replace)

\* `for prod in prodlist` of entry i, from production j on
RECURSIVE RewriteList(_, _, _, _, _)
RewriteList(prods, i, j, remove, replace) ==
    IF j <= Len(prods[i].v)
    THEN RewriteList([prods EXCEPT ![i].v[j] =
                         verify(WalkTerms(@, 1, prods, remove, replace))],
                     i, j + 1, remove, replace)
    ELSE prods

\* The second `for name, prodlist in self.productions.items()`
RECURSIVE RewriteAll(_, _, _, _)
RewriteAll(prods, i, remove, replace) ==
    IF i <= Len(prods)
    THEN RewriteAll(RewriteList(prods, i, 1, remove, replace),
                    i + 1, remove, replace)
    ELSE prods

\* for name in remove | replace: del self.productions[name]
DeleteAll(prods, names) == SelectSeq(prods, LAMBDA e : e.k \notin names)

\* A pass that deletes the removed nonterminals only: `for name in remove`
iterationKeepsReplaced(prods) ==
    LET d1 == removeDuplicates(prods)
        rm == RemoveSet(d1)
        rp == ReplaceSet(d1)
    IN  [productions |-> DeleteAll(RewriteAll(d1, 1, rm, rp), rm),
         remove |-> rm, replace |-> rp]

\* A pass of the loop after self.removeDuplicates()
Rewrite(prods) ==
    [productions |-> DeleteAll(RewriteAll(prods, 1, RemoveSet(prods),
                                          ReplaceSet(prods)),
                               RemoveSet(prods) \cup ReplaceSet(prods)),
     remove |-> RemoveSet(prods),
     replace |-> ReplaceSet(prods)]

\* One pass of the while loop of simplify
iteration(prods) == Rewrite(removeDuplicates(prods))

\* The counter without counter.invalidate('S')
renameCounterWithS == NewCounter(0)

\* The counter of the renaming: a fresh StateCounter with 'S' invalidated
renameCounter == invalidate(NewCounter(0), StartSymbol)

\* mapping[name] = counter.get(), r being what counter.get() gave
MapNext(mapping, nm, r) ==
    [mapping |-> Put(mapping, nm, r.name), counter |-> r.counter]

\* for name in self.productions: if name not in mapping: ...
\* m is the mapping and the counter
RECURSIVE BuildMapping(_, _)
BuildMapping(m, ks) ==
    IF ks = <<>> \/ ~Evaluated(m) THEN m
    ELSE IF HasKey(m.mapping, ks[1]) THEN BuildMapping(m, Tail(ks))
    ELSE BuildMapping(MapNext(m.mapping, ks[1], CounterGet(m.counter)), Tail(ks))

\* The mapping simplify renames by
renameMapping(prods) ==
    BuildMapping([mapping |-> <<[k |-> StartEnd, v |-> StartSymbol]>>,
                  counter |-> renameCounter],
                 Keys(prods)).mapping

\* for prod in self.productions[newName]: prod.rename(mapping);
\* self.productions[newName] is read, and inserted when missing
RenameList(prods, newName, mapping) ==
    Put(prods, newName,
        [j \in 1..Len(Get(prods, newName)) |->
            rename(Get(prods, newName)[j], mapping)])

\* The body of `for name, newName in mapping.items()`
renameOne(prods, nm, newName, mapping) ==
    RenameList(Touch(MoveKey(Touch(prods, nm, <<>>), nm, newName),
                     newName, <<>>),
               newName, mapping)

RECURSIVE RenameAll(_, _, _)
RenameAll(prods, mapping, i) ==
    IF Evaluated(prods) /\ i <= Len(mapping)
    THEN RenameAll(renameOne(prods, mapping[i].k, mapping[i].v, mapping),
                   mapping, i + 1)
    ELSE prods

\* The secondary simplification
renameStates(prods) == RenameAll(prods, renameMapping(prods), 1)

-----------------------------------------------------------------------------
(* The driver: text -> grammar -> automaton -> grammar -> simplify *)

\* Two productions of one nonterminal with the same terms
HasDuplicates(prods) ==
    \E i \in 1..Len(prods) :
        \E a, b \in 1..Len(prods[i].v) : a < b /\ prods[i].v[a] = prods[i].v[b]

\* remove and replace are simplify's locals.  The rest records the call:
\* iters the passes of the loop made, keys0 the number of nonterminals the
\* loop started with, madeDup whether some pass, by removing or replacing
\* nonterminals, left two equal productions in one list,
\* preRename the productions the renaming started from.
NoLoop == [remove |-> {}, replace |-> {}, iters |-> 0, keys0 |-> 0,
           madeDup |-> FALSE, preRename |-> <<>>]

Init ==
    /\ pc = "parse"
    /\ hashSeed \in HashSeeds
    /\ lineNo = 0
    /\ lastLine = 0
    /\ name = <<>>
    /\ grammar = EmptyGrammar
    /\ err = NoError
    /\ pda = EmptyPDA
    /\ pdaBuilt = EmptyPDA
    /\ cfg = EmptyGrammar
    /\ loopVars = NoLoop
    /\ calls = 0
    /\ firstResult = <<>>

\* ContextFreeGrammar.__init__ reads the next line of the text
ParseLine ==
    /\ pc = "parse"
    /\ lineNo < MaxLines
    /\ \E i \in (lastLine + 1)..Len(TextLines) :
         \E r \in {ReadLine(grammar, name, TextLines[i], lineNo)} :
             /\ grammar' = r.g
             /\ name' = r.name
             /\ err' = r.err
             /\ pc' = IF r.err = NoError THEN "parse" ELSE "failed"
             /\ lastLine' = i
    /\ lineNo' = lineNo + 1
    /\ UNCHANGED <<hashSeed, pda, pdaBuilt, cfg, loopVars, calls, firstResult>>

\* The text has ended and __init__ returned; grammar.toPDA()
ToPDA ==
    /\ pc = "parse"
    /\ pda' = NewPDA(grammar, hashSeed)
    /\ pdaBuilt' = pda'
    /\ pc' = "pda"
    /\ lineNo' = 0
    /\ lastLine' = 0
    /\ name' = <<>>
    /\ UNCHANGED <<hashSeed, grammar, err, cfg, loopVars, calls, firstResult>>

\* pda.toCFG()
ToCFG ==
    /\ pc = "pda"
    /\ \E r \in {toCFG(pda, hashSeed)} :
           /\ cfg' = r.cfg
           /\ pda' = r.pda
    /\ pc' = "cfg"
    /\ UNCHANGED <<hashSeed, lineNo, lastLine, name, grammar, err, pdaBuilt,
                   loopVars, calls, firstResult>>

\* simplify() is called: the start state is merged, remove and replace are
\* initialised to {'start'}
SimplifyBegin ==
    /\ pc \in {"cfg", "done"}
    /\ calls < MaxCalls
    /\ calls' = calls + 1
    /\ cfg' = [cfg EXCEPT !.productions = mergeStart(cfg.productions)]
    /\ loopVars' = [remove |-> {Lower(START)}, replace |-> {Lower(START)},
                    iters |-> 0, keys0 |-> Len(cfg'.productions),
                    madeDup |-> FALSE, preRename |-> <<>>]
    /\ pc' = "loop"
    /\ UNCHANGED <<hashSeed, lineNo, lastLine, name, grammar, err, pda,
                   pdaBuilt, firstResult>>

\* `while len(remove) or len(replace)`: one pass, or the exit
SimplifyIterate ==
    /\ pc = "loop"
    /\ IF loopVars.remove # {} \/ loopVars.replace # {}
       THEN \E r \in {iteration(cfg.productions)} :
                /\ cfg' = [cfg EXCEPT !.productions = r.productions]
                /\ loopVars' = [loopVars EXCEPT !.remove = r.remove,
                                                !.replace = r.replace,
                                                !.iters = loopVars.iters + 1,
                                                !.madeDup =
                                                    \/ loopVars.madeDup
                                                    \/ HasDuplicates(r.productions)]
                /\ pc' = "loop"
       ELSE /\ pc' = "rename"
            /\ UNCHANGED <<cfg, loopVars>>
    /\ UNCHANGED <<hashSeed, lineNo, lastLine, name, grammar, err, pda,
                   pdaBuilt, calls, firstResult>>

\* The renaming of the states; simplify() returns
SimplifyRename ==
    /\ pc = "rename"
    /\ cfg' = [cfg EXCEPT !.productions = renameStates(cfg.productions)]
    /\ loopVars' = [loopVars EXCEPT !.preRename = cfg.productions]
    /\ firstResult' = IF calls = 1 THEN cfg'.productions ELSE firstResult
    /\ pc' = "done"
    /\ UNCHANGED <<hashSeed, lineNo, lastLine, name, grammar, err, pda,
                   pdaBuilt, calls>>

Next ==
    \/ ParseLine
    \/ ToPDA
    \/ ToCFG
    \/ SimplifyBegin
    \/ SimplifyIterate
    \/ SimplifyRename

Spec == Init /\ [][Next]_vars

-----------------------------------------------------------------------------
(* The language of a grammar, up to a length *)

\* A terminal string is a sequence of terminals.  The strings of length at
\* most n that are a string of A followed by a string of B
Concat(A, B, n) == {a \o b : <<a, b>> \in {ab \in A \X B : Len(ab[1]) + Len(ab[2]) <= n}}

\* The strings a term derives, given the strings L[k] each nonterminal k is
\* known to derive; a nonterminal without an entry derives nothing
TermStrings(term, L, keys) ==
    IF term = EPS THEN {<<>>}
    ELSE IF term \in keys THEN L[term]
    ELSE IF TERMINAL(term) THEN {<<term>>}
    ELSE {}

RECURSIVE ProdStrings(_, _, _, _)
ProdStrings(terms, L, keys, n) ==
    IF terms = <<>> THEN {<<>>}
    ELSE Concat(TermStrings(terms[1], L, keys),
                ProdStrings(Tail(terms), L, keys, n), n)

DeriveStep(prods, L, n) ==
    [k \in KeySet(prods) |->
        UNION {ProdStrings(Get(prods, k)[j], L, KeySet(prods), n) :
                  j \in 1..Len(Get(prods, k))}]

RECURSIVE DeriveFix(_, _, _)
DeriveFix(prods, L, n) ==
    LET L1 == DeriveStep(prods, L, n)
    IN  IF L1 = L THEN L ELSE DeriveFix(prods, L1, n)

\* The terminal strings of length at most n that nonterminal start derives
Language(prods, start, n) ==
    IF ~HasKey(prods, start) THEN {}
    ELSE DeriveFix(prods, [k \in KeySet(prods) |-> {}], n)[start]

-----------------------------------------------------------------------------
(* Equality of two production maps up to a renaming of the nonterminals *)

\* f, a dict from the keys of d1 to the keys of d2, carries every production
\* list of d1 to the list of its image
CarriesLists(d1, d2, f) ==
    \A i \in 1..Len(d1) :
        LET l1 == d1[i].v
            l2 == Get(d2, Get(f, d1[i].k))
        IN  /\ Len(l1) = Len(l2)
            /\ {rename(l1[j], f) : j \in 1..Len(l1)} = {l2[j] : j \in 1..Len(l2)}

\* Some extension of f to the keys ks, one to one, carries the lists
RECURSIVE RenamingFrom(_, _, _, _)
RenamingFrom(d1, d2, ks, f) ==
    IF ks = <<>> THEN CarriesLists(d1, d2, f)
    ELSE \E k2 \in KeySet(d2) \ {f[i].v : i \in 1..Len(f)} :
            /\ Len(Get(d2, k2)) = Len(Get(d1, ks[1]))
            /\ RenamingFrom(d1, d2, Tail(ks), Append(f, [k |-> ks[1], v |-> k2]))

EqualUpToRenaming(d1, d2) ==
    /\ Len(d1) = Len(d2)
    /\ RenamingFrom(d1, d2, Keys(d1), <<>>)

-----------------------------------------------------------------------------
(* Claims *)

ProductionErrors == {"Invalid production state name", "Invalid production item"}

\* C1: when construction fails because a production's name or term is
\* malformed, the error carries the 1-based index of the offending line
\* (a first line `s -> a` is reported as line 1).
C1_ErrorCarriesLineIndex ==
    (pc = "failed" /\ err.kind \in ProductionErrors) => err.line = err.at

\* The grammar `S -> $`
OnlyEpsilonGrammar == <<[k |-> StartSymbol, v |-> <<<<EPS>>>>]>>

\* C2: for the grammar `S -> $`, toPDA, toCFG and simplify give the grammar
\* whose only nonterminal is S, with the single production S -> ε.
C2_EpsilonGrammarRoundTrip ==
    (pc = "done" /\ calls = 1 /\ grammar.productions = OnlyEpsilonGrammar)
        => cfg.productions = OnlyEpsilonGrammar

\* C3: a second simplify() leaves the grammar equal to the result of the
\* first, up to a renaming of the nonterminals.
C3_SimplifyIdempotent ==
    (pc = "done" /\ calls = 2) => EqualUpToRenaming(firstResult, cfg.productions)

\* C4: when simplify() returns, no nonterminal has two productions with the
\* same terms.
C4_NoDuplicateProductions ==
    pc = "done" => ~HasDuplicates(cfg.productions)

\* The first simplify() has returned, and a pass of its loop had made two
\* productions of one nonterminal equal by removing or replacing terms.
C4_Witness ==
    /\ pc = "done" /\ calls = 1
    /\ loopVars.madeDup
    /\ \E i \in 1..Len(cfg.productions) : Len(cfg.productions[i].v) >= 2

\* A capital letter followed by lower case letters: the shape of the names
\* a StateCounter generates
IsCounterName(s) ==
    /\ Len(s) >= 1
    /\ IsUpper(s[1])
    /\ \A i \in 2..Len(s) : IsLower(s[i])
    /\ s \notin {START, END}

\* The productions the renaming started from, the start nonterminal first:
\* the order in which the renaming takes them
RenamingOrder(pre) ==
    LET d == Touch(pre, StartEnd, <<>>)
    IN  <<[k |-> StartEnd, v |-> Get(d, StartEnd)]>> \o Del(d, StartEnd)

\* C5: after simplify() on a grammar made by toCFG, the start nonterminal
\* is S, every other nonterminal has a name generated by the counter, no
\* two nonterminals share a name, none but the start is S, and every
\* nonterminal's production list is that of one nonterminal before the
\* renaming, renamed: none is overwritten or lost.
C5_RenamingTotal ==
    (pc = "done" /\ calls = 1) =>
        LET old == RenamingOrder(loopVars.preRename)
            new == cfg.productions
            f == [i \in 1..Len(old) |-> [k |-> old[i].k, v |-> new[i].k]]
        IN  /\ Len(new) = Len(old)
            /\ new[1].k = StartSymbol
            /\ \A i \in 2..Len(new) : IsCounterName(new[i].k) /\ new[i].k # StartSymbol
            /\ \A i, j \in 1..Len(new) : i # j => new[i].k # new[j].k
            /\ \A i \in 1..Len(new) :
                  new[i].v = [j \in 1..Len(old[i].v) |-> rename(old[i].v[j], f)]

\* The first simplify() has returned a grammar of at least twenty
\* nonterminals: the counter has passed the index of 'S'.
C5_Witness ==
    pc = "done" /\ calls = 1 /\ Len(cfg.productions) >= 20

\* The scenario grammar: S -> 0 S 0 | T,  T -> 1 T 1 | 0 | ε
ScenarioGrammar ==
    <<[k |-> <<83>>, v |-> <<<<<<48>>, <<83>>, <<48>>>>, <<<<84>>>>>>],
      [k |-> <<84>>, v |-> <<<<<<49>>, <<84>>, <<49>>>>, <<<<48>>>>, <<EPS>>>>]>>

\* C6: for the scenario grammar, the simplified grammar's S derives the
\* terminal strings the original S derives (compared up to length MaxLen).
C6_ScenarioSameLanguage ==
    (pc = "done" /\ calls = 1 /\ grammar.productions = ScenarioGrammar)
        => Language(cfg.productions, StartSymbol, MaxLen)
               = Language(grammar.productions, StartSymbol, MaxLen)

\* C7: the loop of simplify() makes at most keys0 + 1 passes, keys0 being
\* the number of nonterminals it starts with: after every pass that leaves
\* the loop running, at least as many nonterminals are gone as passes made.
C7_LoopBounded ==
    pc \in {"loop", "rename", "done"} =>
        /\ loopVars.iters <= loopVars.keys0 + 1
        /\ (pc = "loop" /\ loopVars.remove \cup loopVars.replace # {})
              => Len(cfg.productions) + loopVars.iters <= loopVars.keys0

\* The loop has ended after exactly keys0 + 1 passes, three or more.
C7_Witness ==
    /\ pc = "rename"
    /\ loopVars.iters = loopVars.keys0 + 1
    /\ loopVars.iters >= 3

\* Every nonterminal a production of g mentions has a production of its own
EveryNonterminalDefined(g) ==
    /\ g.productions # <<>>
    /\ \A i \in 1..Len(g.productions) :
          \A j \in 1..Len(g.productions[i].v) :
              \A t \in 1..Len(g.productions[i].v[j]) :
                  LET term == g.productions[i].v[j][t]
                  IN  TERMINAL(term) \/ HasKey(g.productions, term)

\* C8: for a grammar whose nonterminals all have productions, every term of
\* the simplified grammar is a terminal, ε, or one of its nonterminals.
C8_NoDanglingNonterminal ==
    (pc = "done" /\ calls = 1 /\ EveryNonterminalDefined(grammar))
        => \A i \in 1..Len(cfg.productions) :
              \A j \in 1..Len(cfg.productions[i].v) :
                  \A t \in 1..Len(cfg.productions[i].v[j]) :
                      LET term == cfg.productions[i].v[j][t]
                      IN  TERMINAL(term) \/ HasKey(cfg.productions, term)

\* C9: toCFG leaves the automaton as __init__ built it: the same states
\* with the same transitions, the same stack-symbol index.
C9_ToCFGReadOnly ==
    pc \in {"cfg", "loop", "rename", "done"} =>
        /\ pda.states = pdaBuilt.states
        /\ pda.stackSymbols = pdaBuilt.stackSymbols
        /\ pda.stateNames = pdaBuilt.stateNames

\* The transitions of the automaton, as <<from, to>> pairs, one per
\* transition (indexed by state entry and position)
Edges(p) ==
    UNION {{<<i, j>> : j \in 1..Len(p.states[i].v)} : i \in 1..Len(p.states)}
EdgeFrom(p, e) == p.states[e[1]].k
EdgeTo(p, e) == p.states[e[1]].v[e[2]].next

\* The states strictly inside a chain
Inner(path) == {path[i] : i \in 2..(Len(path) - 1)}

\* C10: the transitions of every production form a chain from Hub to Hub
\* whose intermediate states are fresh: none is Start, End, A or Hub, each
\* belongs to one production's chain, and has one transition in, one out.
C10_ChainsFresh ==
    pc = "pda" =>
        \A c \in 1..Len(pda.chains) :
            LET path == pda.chains[c].path
            IN  /\ path[1] = HUB
                /\ path[Len(path)] = HUB
                /\ \A s \in Inner(path) :
                      /\ s \notin {START, END, StateA, HUB}
                      /\ \A c2 \in 1..Len(pda.chains) :
                            c2 # c => s \notin Inner(pda.chains[c2].path)
                      /\ Cardinality({e \in Edges(pda) : EdgeFrom(pda, e) = s}) = 1
                      /\ Cardinality({e \in Edges(pda) : EdgeTo(pda, e) = s}) = 1

=============================================================================
